---- MODULE Spec2Model ----
(***************************************************************************)
(* A model of appMVCv2.py: a WSGI application that keeps text documents in *)
(* one shelve store and per-visitor sessions in another, routes a request  *)
(* by its exact path, and gates document views by the session's counter.   *)
(*                                                                         *)
(* Python values are tagged records (PyNone, PyStr, PyList, TextModel,     *)
(* SessionModel) so that the type tests and truth tests of the code can be *)
(* written as the code writes them.  A response body is the record of the  *)
(* slots its template substitutes: [template, error, title, content,       *)
(* titles]; a template without a slot leaves that slot empty.              *)
(***************************************************************************)
EXTENDS Integers, Sequences, FiniteSets, TLC

\* ----------------------------------------------------------------- bounds
\* The number of distinct values uuid4 can return.
MaxSessions == 2

UuidNames == <<"u1", "u2", "u3", "u4">>

UUIDs == {UuidNames[i] : i \in 1..MaxSessions}

\* Titles and contents a query string may carry ("" is a blank value).
Titles == {"A", "B"}
Contents == {"x", "y"}

\* The paths requested: the registered ones and one that is not.
RequestPaths == {"/", "/text", "/text/add", "/nope"}

\* The query strings requested, as sequences of <<name, value>> pairs: none,
\* a title, a title with a content, a blank title, and a title given twice.
QueryStrings ==
  {<<>>, <<<<"title", "A">>>>}
  \cup {<<<<"title", "A">>, <<"content", c>>>> : c \in Contents}
  \cup {<<<<"title", "B">>, <<"content", "x">>>>,
        <<<<"title", "">>, <<"content", "y">>>>,
        <<<<"title", "B">>, <<"title", "A">>>>}

\* The Cookie headers requested, as sequences of pieces: a session id
\* (issued or not), and a cookie of another name.
CookieHeaders ==
  {<< <<"session_id", u>> >> : u \in UUIDs} \cup {<< <<"lang", "en">> >>}

\* The requests: with a Cookie header, and without one.
Environs ==
  [PATH_INFO : RequestPaths, QUERY_STRING : QueryStrings,
   HTTP_COOKIE : CookieHeaders]
  \cup [PATH_INFO : RequestPaths, QUERY_STRING : QueryStrings]

\* --------------------------------------------------------- Python values
PyNone == [type |-> "NoneType"]

PyStr(s) == [type |-> "str", s |-> s]

PyList(items) == [type |-> "list", items |-> items]

PyTuple(items) == [type |-> "tuple", items |-> items]

PyInt(n) == [type |-> "int", n |-> n]

\* bool(v): None, "", 0, [] and () are false; an instance of a class that defines
\* neither __nonzero__ nor __len__ is true.
Truthy(v) ==
  CASE v.type = "NoneType" -> FALSE
    [] v.type = "str" -> v.s # ""
    [] v.type \in {"list", "tuple"} -> Len(v.items) > 0
    [] v.type = "int" -> v.n # 0
    [] OTHER -> TRUE

\* dict.get(key): the value under key, None when the key is missing.
DictGet(dict_, key) == IF key \in DOMAIN dict_ THEN dict_[key] ELSE PyNone

\* ------------------------------------------------------------- utilities
http_status(code) == IF code = 200 THEN "200 OK" ELSE "404 Not Found"

\* The values of `name` in the query string qs (a sequence of <<name, value>>
\* pairs), in order, blank values dropped (keep_blank_values is off).
RECURSIVE ValuesOf(_, _)
ValuesOf(qs, name) ==
  IF qs = <<>> THEN <<>>
  ELSE LET rest == ValuesOf(Tail(qs), name)
       IN IF Head(qs)[1] = name /\ Head(qs)[2] # ""
          THEN <<PyStr(Head(qs)[2])>> \o rest
          ELSE rest

\* urlparse.parse_qs: a dict from each name that has a non-blank value to the
\* list of its values.
parse_qs(qs) ==
  LET names == {qs[i][1] : i \in DOMAIN qs}
  IN [name \in {m \in names : ValuesOf(qs, m) # <<>>} |-> PyList(ValuesOf(qs, name))]

parse_http_get_data(environ) == parse_qs(environ.QUERY_STRING)

\* The cookie header is the sequence of its ';'-separated pieces, each piece
\* the sequence x.split('=') gives.  environ['HTTP_COOKIE'] raises KeyError
\* when the request has no Cookie header, and dict() raises ValueError on a
\* piece that is not a pair.
parse_cookies_raises(environ) ==
  IF "HTTP_COOKIE" \notin DOMAIN environ
  THEN TRUE
  ELSE \E i \in DOMAIN environ.HTTP_COOKIE : Len(environ.HTTP_COOKIE[i]) # 2

\* dict() of the pairs: a later pair of the same name wins.
parse_cookies(environ) ==
  LET h == environ.HTTP_COOKIE
      Last(name) == CHOOSE i \in DOMAIN h :
                      /\ h[i][1] = name
                      /\ \A j \in DOMAIN h : h[j][1] = name => j <= i
  IN [name \in {h[i][1] : i \in DOMAIN h} |-> PyStr(h[Last(name)][2])]

\* take_one_or_None that takes the first element of a list only.
take_one_or_None_lists(dict_, key) ==
  LET val == DictGet(dict_, key)
  IN IF val.type = "list" /\ Len(val.items) > 0
     THEN val.items[1]
     ELSE val

take_one_or_None(dict_, key) ==
  LET val == DictGet(dict_, key)
  IN IF val.type \in {"list", "tuple"} /\ Len(val.items) > 0
     THEN val.items[1]
     ELSE val

\* ----------------------------------------------------------------- model
TextModel(title, content) ==
  [type |-> "TextModel", title |-> title, content |-> content]

\* shelve's get: the stored value, None for a key that is not in the store
\* (None itself is never a key of the store).
ShelfHas(db, key) == key.type = "str" /\ key.s \in DOMAIN db

ShelfGet(db, key) == IF ShelfHas(db, key) THEN db[key.s] ELSE PyNone

\* A gate one view too wide.
ViewGate_wide == 3 + 1

\* The view gate: a session whose counter is above it is shown no document.
ViewGate == 3

\* The store with key k set to value v.
ShelfSet(db, k, v) == [x \in DOMAIN db \cup {k} |-> IF x = k THEN v ELSE db[x]]

\* get_by_title without the test of the content.
get_by_title_untested(db, title) ==
  TextModel(title, ShelfGet(db, title))

get_by_title(db, title) ==
  LET content == ShelfGet(db, title)
  IN IF Truthy(content) THEN TextModel(title, content) ELSE PyNone

\* The listing; the order of shelve's items() is not modelled.
get_all(db) == {TextModel(PyStr(t), db[t]) : t \in DOMAIN db}

\* The two steps of create between which another request can run: the test
\* of the title, and the write with its sync.
create_test(db, title) == ShelfHas(db, title)

\* A write that leaves a title that is in the store as it is.
create_write_kept(db, title, content) ==
  IF ShelfHas(db, title) THEN db ELSE ShelfSet(db, title.s, content)

create_write(db, title, content) == ShelfSet(db, title.s, content)

\* create without the test of the title: it always writes.
create_overwrite(db, title, content) ==
  [ret |-> TRUE, db |-> ShelfSet(db, title.s, content)]

\* create returns [ret, db]: its return value and the store it leaves.
create(db, title, content) ==
  IF ShelfHas(db, title)
  THEN [ret |-> FALSE, db |-> db]
  ELSE [ret |-> TRUE, db |-> ShelfSet(db, title.s, content)]

\* delete returns [ret, db]; no route calls it.
delete(db, title) ==
  IF ~ShelfHas(db, title)
  THEN [ret |-> FALSE, db |-> db]
  ELSE [ret |-> TRUE, db |-> [x \in DOMAIN db \ {title.s} |-> db[x]]]

\* SessionModel(): uuid is the value uuid4 returns.
SessionModel(uuid) ==
  [type |-> "SessionModel", session_id |-> uuid, amount_of_viewed_pages |-> 0]

\* get_or_create that never looks the id up: it makes a session every time.
get_or_create_anew(db, session_id, uuid) ==
  [session |-> SessionModel(uuid),
   db |-> ShelfSet(db, uuid, SessionModel(uuid))]

\* get_or_create returns [session, db]; uuid is what uuid4 would return.
get_or_create(db, session_id, uuid) ==
  LET session == ShelfGet(db, session_id)
  IN IF ~Truthy(session)
     THEN [session |-> SessionModel(uuid),
           db |-> ShelfSet(db, uuid, SessionModel(uuid))]
     ELSE [session |-> session, db |-> db]

\* update on a store opened anew: only the written session is left.
update_truncating(db, session) ==
  [x \in {session.session_id} |-> session]

\* update with one counter for all visitors: it writes the session's
\* counter into every stored session.
update_shared(db, session) ==
  [x \in DOMAIN db \cup {session.session_id} |->
     IF x = session.session_id THEN session
     ELSE [db[x] EXCEPT !.amount_of_viewed_pages =
                          session.amount_of_viewed_pages]]

\* update that writes nothing.
update_skipped(db, session) == db

update(db, session) == ShelfSet(db, session.session_id, session)

\* ------------------------------------------------------------------ views
\* The slots of the index template: the error (wrapped in a red heading when
\* it is not empty), the current document or the placeholder, the titles.
TextIndexView_render(context) ==
  [template |-> "index",
   error |-> context.error.s,
   title |-> IF Truthy(context.current) THEN context.current.title.s ELSE "",
   content |-> IF Truthy(context.current)
               THEN context.current.content.s
               ELSE "What do you want read?",
   titles |-> {text.title.s : text \in context.all}]

\* A body that is a fixed string substitutes nothing.
Literal(text) ==
  [template |-> text, error |-> "", title |-> "", content |-> "", titles |-> {}]

RedirectView_render(context) ==
  Literal("<meta http-equiv=\"refresh\" content=\"0; url=/text\" />")

\* ------------------------------------------------- controller and router
\* A handler returns [code, body] and leaves a session and a document
\* store; context is the render context it built, title its local of that
\* name (None in a handler without one) and is_created the local of add
\* ("not called" when create was not called).
NoContext == [handler |-> "none"]

\* index with the gate tested by < in place of <=.
index_strict(request_get_data, db) ==
  LET title == take_one_or_None(request_get_data, "title")
      session == request_get_data["SESSION"]
      current_text == IF session.amount_of_viewed_pages < ViewGate
                      THEN get_by_title(db, title)
                      ELSE PyNone
      all_texts == get_all(db)
      context == [all |-> all_texts,
                  current |-> current_text,
                  error |-> IF session.amount_of_viewed_pages > ViewGate
                            THEN PyStr("Too many articles reviewed.")
                            ELSE PyStr("")]
  IN [code |-> 200,
      body |-> TextIndexView_render(context),
      context |-> context,
      title |-> title,
      is_created |-> "not called",
      session |-> IF Truthy(current_text)
                  THEN [session EXCEPT !.amount_of_viewed_pages = @ + 1]
                  ELSE session,
      db |-> db]

\* index that counts every request of a title, found or not.
index_counts_title(request_get_data, db) ==
  LET title == take_one_or_None(request_get_data, "title")
      session == request_get_data["SESSION"]
      current_text == IF session.amount_of_viewed_pages <= ViewGate
                      THEN get_by_title(db, title)
                      ELSE PyNone
      all_texts == get_all(db)
      after == IF Truthy(title)
               THEN [session EXCEPT !.amount_of_viewed_pages = @ + 1]
               ELSE session
      context == [all |-> all_texts,
                  current |-> current_text,
                  error |-> IF session.amount_of_viewed_pages > ViewGate
                            THEN PyStr("Too many articles reviewed.")
                            ELSE PyStr("")]
  IN [code |-> 200,
      body |-> TextIndexView_render(context),
      context |-> context,
      title |-> title,
      is_created |-> "not called",
      session |-> after,
      db |-> db]

\* index that builds the error after it has counted the view.
index_error_late(request_get_data, db) ==
  LET title == take_one_or_None(request_get_data, "title")
      session == request_get_data["SESSION"]
      current_text == IF session.amount_of_viewed_pages <= ViewGate
                      THEN get_by_title(db, title)
                      ELSE PyNone
      all_texts == get_all(db)
      after == IF Truthy(current_text)
               THEN [session EXCEPT !.amount_of_viewed_pages = @ + 1]
               ELSE session
      context == [all |-> all_texts,
                  current |-> current_text,
                  error |-> IF after.amount_of_viewed_pages > ViewGate
                            THEN PyStr("Too many articles reviewed.")
                            ELSE PyStr("")]
  IN [code |-> 200,
      body |-> TextIndexView_render(context),
      context |-> context,
      title |-> title,
      is_created |-> "not called",
      session |-> after,
      db |-> db]

\* index that lists nothing to a session above the gate.
index_gated_listing(request_get_data, db) ==
  LET title == take_one_or_None(request_get_data, "title")
      session == request_get_data["SESSION"]
      current_text == IF session.amount_of_viewed_pages <= ViewGate
                      THEN get_by_title(db, title)
                      ELSE PyNone
      all_texts == IF session.amount_of_viewed_pages <= ViewGate
                   THEN get_all(db)
                   ELSE {}
      after == IF Truthy(current_text)
               THEN [session EXCEPT !.amount_of_viewed_pages = @ + 1]
               ELSE session
      context == [all |-> all_texts,
                  current |-> current_text,
                  error |-> IF session.amount_of_viewed_pages > ViewGate
                            THEN PyStr("Too many articles reviewed.")
                            ELSE PyStr("")]
  IN [code |-> 200,
      body |-> TextIndexView_render(context),
      context |-> context,
      title |-> title,
      is_created |-> "not called",
      session |-> after,
      db |-> db]

index(request_get_data, db) ==
  LET title == take_one_or_None(request_get_data, "title")
      session == request_get_data["SESSION"]
      current_text == IF session.amount_of_viewed_pages <= ViewGate
                      THEN get_by_title(db, title)
                      ELSE PyNone
      all_texts == get_all(db)
      context == [all |-> all_texts,
                  current |-> current_text,
                  error |-> IF session.amount_of_viewed_pages > ViewGate
                            THEN PyStr("Too many articles reviewed.")
                            ELSE PyStr("")]
  IN [code |-> 200,
      body |-> TextIndexView_render(context),
      context |-> context,
      title |-> title,
      is_created |-> "not called",
      session |-> IF Truthy(current_text)
                  THEN [session EXCEPT !.amount_of_viewed_pages = @ + 1]
                  ELSE session,
      db |-> db]

\* add that honours "rewrite": a title already there is deleted and created
\* again.
add_rewrite(request_get_data, db) ==
  LET title == take_one_or_None(request_get_data, "title")
      content == take_one_or_None(request_get_data, "content")
      filled == ~(~Truthy(title) \/ ~Truthy(content))
      created == create(delete(db, title).db, title, content)
      error == IF ~filled THEN PyStr("Need fill the form fields.")
               ELSE IF ~created.ret THEN PyStr("Title already exist.")
               ELSE PyNone
      context == [title |-> title, content |-> content, error |-> error]
  IN [code |-> 200,
      body |-> RedirectView_render(context),
      context |-> context,
      title |-> title,
      is_created |-> IF ~filled THEN "not called"
                     ELSE IF created.ret THEN "True" ELSE "False",
      session |-> request_get_data["SESSION"],
      db |-> IF filled THEN created.db ELSE db]

\* add that tests the title alone before it creates.
add_title_only(request_get_data, db) ==
  LET title == take_one_or_None(request_get_data, "title")
      content == take_one_or_None(request_get_data, "content")
      filled == Truthy(title)
      created == create(db, title, content)
      error == IF ~filled THEN PyStr("Need fill the form fields.")
               ELSE IF ~created.ret THEN PyStr("Title already exist.")
               ELSE PyNone
      context == [title |-> title, content |-> content, error |-> error]
  IN [code |-> 200,
      body |-> RedirectView_render(context),
      context |-> context,
      title |-> title,
      is_created |-> IF ~filled THEN "not called"
                     ELSE IF created.ret THEN "True" ELSE "False",
      session |-> request_get_data["SESSION"],
      db |-> IF filled THEN created.db ELSE db]

add(request_get_data, db) ==
  LET title == take_one_or_None(request_get_data, "title")
      content == take_one_or_None(request_get_data, "content")
      filled == ~(~Truthy(title) \/ ~Truthy(content))
      created == create(db, title, content)
      error == IF ~filled THEN PyStr("Need fill the form fields.")
               ELSE IF ~created.ret THEN PyStr("Title already exist.")
               ELSE PyNone
      context == [title |-> title, content |-> content, error |-> error]
  IN [code |-> 200,
      body |-> RedirectView_render(context),
      context |-> context,
      title |-> title,
      is_created |-> IF ~filled THEN "not called"
                     ELSE IF created.ret THEN "True" ELSE "False",
      session |-> request_get_data["SESSION"],
      db |-> IF filled THEN created.db ELSE db]

\* add from the return of create on, for filled fields: returned is what
\* create returned.
add_given(request_get_data, returned) ==
  LET title == take_one_or_None(request_get_data, "title")
      content == take_one_or_None(request_get_data, "content")
      error == IF ~returned THEN PyStr("Title already exist.") ELSE PyNone
      context == [title |-> title, content |-> content, error |-> error]
  IN [code |-> 200,
      body |-> RedirectView_render(context),
      context |-> context,
      title |-> title,
      is_created |-> IF returned THEN "True" ELSE "False",
      session |-> request_get_data["SESSION"]]

index_hi(request_get_data, db) ==
  [code |-> 200, body |-> Literal("Index HI!"), context |-> NoContext,
   title |-> PyNone, is_created |-> "not called", session |-> request_get_data["SESSION"],
   db |-> db]

default_response(request_get_data, db) ==
  [code |-> 404, body |-> Literal("Nooo 404!"), context |-> NoContext,
   title |-> PyNone, is_created |-> "not called", session |-> request_get_data["SESSION"],
   db |-> db]

\* The registrations with the add handler under a path with a trailing slash.
paths_slash ==
  [p \in {"/", "/text", "/text/add/"} |->
     CASE p = "/" -> "lambda"
       [] p = "/text" -> "controller.index"
       [] p = "/text/add/" -> "controller.add"]

\* router.register: the callback of each registered path.
paths ==
  [p \in {"/", "/text", "/text/add"} |->
     CASE p = "/" -> "lambda"
       [] p = "/text" -> "controller.index"
       [] p = "/text/add" -> "controller.add"]

Call(callback, request_get_data, db) ==
  CASE callback = "lambda" -> index_hi(request_get_data, db)
    [] callback = "controller.index" -> index(request_get_data, db)
    [] callback = "controller.add" -> add(request_get_data, db)

route(request_path, request_get_data, db) ==
  IF request_path \in DOMAIN paths
  THEN Call(paths[request_path], request_get_data, db)
  ELSE default_response(request_get_data, db)

\* ------------------------------------------------------------------ state
VARIABLES
  textDb,   \* the document store: title |-> content
  sessDb,   \* the session store: session id |-> SessionModel
  last,     \* the last request and what application did with it
  first,    \* history: title |-> the content of its first successful create
  served,   \* history: session id |-> the documents shown to it so far
  procs     \* the requests in progress when requests run interleaved

vars == <<textDb, sessDb, last, first, served, procs>>

\* The requests that can be in progress at once.
Procs == {1, 2}

\* A request in progress: where it is in application (pc), what was read
\* from it (r), its own copy of the session record, and what its handler
\* returned (res).
IdleProc == [pc |-> "idle", r |-> PyNone, session |-> PyNone, res |-> PyNone]

EmptyDb == [x \in {} |-> PyNone]

NoRequest ==
  [state |-> "none", path |-> "", header |-> "", cookie |-> PyNone,
   new |-> FALSE, n |-> 0, title |-> PyNone, code |-> 0, status |-> "", headers |-> <<>>, body |-> Literal(""),
   context |-> NoContext, is_created |-> "not called"]

Init ==
  /\ textDb = EmptyDb
  /\ sessDb = EmptyDb
  /\ last = NoRequest
  /\ first = EmptyDb
  /\ served = [x \in {} |-> 0]
  /\ procs = [p \in Procs |-> IdleProc]

\* The history of documents shown: the session of id sid got the response
\* body; a body of the index template with a title shows a document.
ServedAfter(srv, sid, body) ==
  [x \in DOMAIN srv \cup {sid} |->
     (IF x \in DOMAIN srv THEN srv[x] ELSE 0)
     + (IF x = sid /\ body.template = "index" /\ body.title # "" THEN 1 ELSE 0)]

\* The history of first contents: a title enters it with the content of
\* the first create of it that returned True, and stays as it entered.
FirstAfter(fst, res) ==
  IF res.is_created = "True" /\ res.title.s \notin DOMAIN fst
  THEN [t \in DOMAIN fst \cup {res.title.s} |->
          IF t \in DOMAIN fst THEN fst[t] ELSE res.context.content]
  ELSE fst

\* What application reads from the request before it routes it: the path,
\* the query data, and the session_id of the cookies, or that parse_cookies
\* raises; header says what the request has for a Cookie header.
Read(environ) ==
  [request_path |-> environ.PATH_INFO,
   request_get_data |-> parse_http_get_data(environ),
   raises |-> parse_cookies_raises(environ),
   header |-> IF "HTTP_COOKIE" \notin DOMAIN environ THEN "missing"
              ELSE IF parse_cookies_raises(environ) THEN "malformed"
              ELSE "parsed",
   session_id |-> IF parse_cookies_raises(environ) THEN PyNone
                  ELSE take_one_or_None(parse_cookies(environ), "session_id")]

Requests == {Read(environ) : environ \in Environs}

\* parse_cookies raises: the request ends without a response and without a
\* change of either store.
application_raises(r) ==
  /\ r.raises
  /\ last' = [NoRequest EXCEPT !.state = "raised",
                               !.path = r.request_path,
                               !.header = r.header]
  /\ UNCHANGED <<textDb, sessDb, first, served, procs>>

\* application, for a request r whose cookies parse; uuid is the value uuid4
\* returns if get_or_create makes a session.
application(r, uuid) ==
  /\ ~r.raises
  /\ \E gc \in {get_or_create(sessDb, r.session_id, uuid)} :
       \E res \in {route(r.request_path,
                         [k \in DOMAIN r.request_get_data \cup {"SESSION"} |->
                            IF k = "SESSION" THEN gc.session
                            ELSE r.request_get_data[k]],
                         textDb)} :
         /\ textDb' = res.db
         /\ sessDb' = update(gc.db, res.session)
         /\ last' = [state |-> "done",
                     path |-> r.request_path,
                     header |-> r.header,
                     cookie |-> r.session_id,
                     new |-> gc.db # sessDb,
                     n |-> gc.session.amount_of_viewed_pages,
                     title |-> res.title,
                     code |-> res.code,
                     status |-> http_status(res.code),
                     headers |-> << <<"Content-Type", "text/html">>,
                                    <<"Set-Cookie", res.session.session_id>> >>,
                     body |-> res.body,
                     context |-> res.context,
                     is_created |-> res.is_created]
         /\ first' = FirstAfter(first, res)
         /\ served' = ServedAfter(served, res.session.session_id, res.body)
         /\ UNCHANGED procs

\* The values uuid4 may return to a request: none is asked of it when the
\* cookie names a stored session; otherwise any value that is no session's
\* id yet and is not the value the request carries.
uuid4(r) ==
  IF ShelfHas(sessDb, r.session_id)
  THEN {"unused"}
  ELSE {u \in UUIDs \ DOMAIN sessDb : PyStr(u) # r.session_id}

Request ==
  \E r \in Requests :
    \/ application_raises(r)
    \/ \E uuid \in uuid4(r) : application(r, uuid)

Next == Request

Spec == Init /\ [][Next]_vars

\* ---------------------------------------------------------- direct calls
\* The managers and take_one_or_None called directly, as the doctest calls
\* take_one_or_None: any title with any content, the empty one included.
DirectContents == Contents \cup {""}

DirectValues ==
  {PyNone, PyInt(7), PyStr("ab"),
   PyList(<<>>), PyList(<<PyInt(1), PyInt(2), PyInt(3)>>),
   PyTuple(<<>>), PyTuple(<<PyStr("a"), PyStr("b")>>)}

DirectDicts ==
  UNION {[keys -> DirectValues] : keys \in SUBSET {"foo", "baz"}}

DirectKeys == {"foo", "bar", "baz"}

\* A direct call and what it returned; for create and delete ret is a
\* BOOLEAN, for the others a Python value.
NoCall ==
  [op |-> "none", title |-> PyNone, content |-> PyNone,
   dict_ |-> EmptyDb, key |-> "", ret |-> PyNone]

InitDirect ==
  /\ textDb = EmptyDb
  /\ sessDb = EmptyDb
  /\ last = NoCall
  /\ first = EmptyDb
  /\ served = [x \in {} |-> 0]
  /\ procs = [p \in Procs |-> IdleProc]

\* In the direct calls the history `first` holds, for each title, the
\* content of the create of it that returned True and was not followed by
\* a delete of it that returned True.
CallCreate ==
  \E t \in Titles, c \in DirectContents :
    \E res \in {create(textDb, PyStr(t), PyStr(c))} :
      /\ textDb' = res.db
      /\ last' = [NoCall EXCEPT !.op = "create", !.title = PyStr(t),
                                !.content = PyStr(c), !.ret = res.ret]
      /\ first' = IF res.ret
                  THEN [x \in DOMAIN first \cup {t} |->
                          IF x = t THEN PyStr(c) ELSE first[x]]
                  ELSE first
      /\ UNCHANGED <<sessDb, served, procs>>

CallDelete ==
  \E t \in Titles :
    \E res \in {delete(textDb, PyStr(t))} :
      /\ textDb' = res.db
      /\ last' = [NoCall EXCEPT !.op = "delete", !.title = PyStr(t),
                                !.ret = res.ret]
      /\ first' = IF res.ret
                  THEN [x \in DOMAIN first \ {t} |-> first[x]]
                  ELSE first
      /\ UNCHANGED <<sessDb, served, procs>>

CallGetByTitle ==
  \E t \in Titles :
    /\ last' = [NoCall EXCEPT !.op = "get_by_title", !.title = PyStr(t),
                              !.ret = get_by_title(textDb, PyStr(t))]
    /\ UNCHANGED <<textDb, sessDb, first, served, procs>>

CallTakeOne ==
  \E d \in DirectDicts, k \in DirectKeys :
    /\ last' = [NoCall EXCEPT !.op = "take_one_or_None", !.dict_ = d,
                              !.key = k, !.ret = take_one_or_None(d, k)]
    /\ UNCHANGED <<textDb, sessDb, first, served, procs>>

NextDirect == CallCreate \/ CallDelete \/ CallGetByTitle \/ CallTakeOne

SpecDirect == InitDirect /\ [][NextDirect]_vars

\* ---------------------------------------------------- interleaved requests
\* Two requests in progress at once, each a run of application; a step of
\* one can come between get_or_create and update of the other, and between
\* the test and the write of a create of the other.

\* The requests that run interleaved: they carry the cookie of the stored
\* session, or a cookie of another name.
ConcRequests ==
  {r \in Requests :
     /\ ~r.raises
     /\ r.session_id \in {PyStr(UuidNames[1]), PyNone}
     /\ ~("title" \in DOMAIN r.request_get_data
          /\ Len(r.request_get_data["title"].items) > 1)}

\* The states the interleaved requests start from: a session that has
\* seen c documents is stored, which needs a document in the store unless
\* c is 0.
InitConc ==
  \E c \in 0..(ViewGate + 1) :
    \E db \in {EmptyDb} \cup {[t \in {"A"} |-> PyStr(x)] : x \in {"x"}} :
      /\ (c > 0 => db # EmptyDb)
      /\ textDb = db
      /\ sessDb = [u \in {UuidNames[1]} |->
                     [SessionModel(u) EXCEPT !.amount_of_viewed_pages = c]]
      /\ last = NoRequest
      /\ first = db
      /\ served = [u \in {UuidNames[1]} |-> c]
      /\ procs = [p \in Procs |-> IdleProc]

\* request_get_data of the request of p, with its SESSION entry.
DataOf(p) ==
  [k \in DOMAIN procs[p].r.request_get_data \cup {"SESSION"} |->
     IF k = "SESSION" THEN procs[p].session
     ELSE procs[p].r.request_get_data[k]]

\* The request of p gets to the create call of add.
CallsCreate(p) ==
  /\ procs[p].r.request_path \in DOMAIN paths
  /\ paths[procs[p].r.request_path] = "controller.add"
  /\ Truthy(take_one_or_None(procs[p].r.request_get_data, "title"))
  /\ Truthy(take_one_or_None(procs[p].r.request_get_data, "content"))

\* application up to get_or_create.
Begin(p) ==
  /\ procs[p].pc = "idle"
  /\ \E r \in ConcRequests :
       \E uuid \in uuid4(r) :
         \E gc \in {get_or_create(sessDb, r.session_id, uuid)} :
           /\ sessDb' = gc.db
           /\ procs' = [procs EXCEPT ![p] = [pc |-> "route", r |-> r,
                                             session |-> gc.session,
                                             res |-> PyNone]]
  /\ UNCHANGED <<textDb, last, first, served>>

\* router.route for a request that does not get to the create call.
Route(p) ==
  /\ procs[p].pc = "route"
  /\ ~CallsCreate(p)
  /\ \E res \in {route(procs[p].r.request_path, DataOf(p), textDb)} :
       /\ textDb' = res.db
       /\ procs' = [procs EXCEPT ![p].pc = "update",
                                 ![p].session = res.session,
                                 ![p].res = [code |-> res.code,
                                             body |-> res.body,
                                             context |-> res.context,
                                             title |-> res.title,
                                             is_created |-> res.is_created,
                                             session |-> res.session]]
  /\ UNCHANGED <<sessDb, last, first, served>>

\* router.route up to the test of the title in create; a title that is in
\* the store ends the create.
CreateTest(p) ==
  /\ procs[p].pc = "route"
  /\ CallsCreate(p)
  /\ procs' = IF create_test(textDb,
                             take_one_or_None(DataOf(p), "title"))
              THEN [procs EXCEPT ![p].pc = "update",
                                 ![p].res = add_given(DataOf(p), FALSE)]
              ELSE [procs EXCEPT ![p].pc = "write"]
  /\ UNCHANGED <<textDb, sessDb, last, first, served>>

\* The write of create, and add to its end.
CreateWrite(p) ==
  /\ procs[p].pc = "write"
  /\ \E res \in {add_given(DataOf(p), TRUE)} :
       /\ textDb' = create_write(textDb, res.title, res.context.content)
       /\ procs' = [procs EXCEPT ![p].pc = "update", ![p].res = res]
       /\ first' = FirstAfter(first, res)
  /\ UNCHANGED <<sessDb, last, served>>

\* application from update on: the session copy is written back and the
\* response sent.
Update(p) ==
  /\ procs[p].pc = "update"
  /\ \E res \in {procs[p].res} :
       /\ sessDb' = update(sessDb, procs[p].session)
       /\ last' = [state |-> "done",
                   path |-> procs[p].r.request_path,
                   header |-> procs[p].r.header,
                   cookie |-> procs[p].r.session_id,
                   new |-> ~ShelfHas(sessDb', procs[p].r.session_id),
                   n |-> procs[p].session.amount_of_viewed_pages,
                   title |-> res.title,
                   code |-> res.code,
                   status |-> http_status(res.code),
                   headers |-> << <<"Content-Type", "text/html">>,
                                  <<"Set-Cookie",
                                    procs[p].session.session_id>> >>,
                   body |-> res.body,
                   context |-> res.context,
                   is_created |-> res.is_created]
       /\ served' = ServedAfter(served, procs[p].session.session_id,
                                res.body)
       /\ procs' = [procs EXCEPT ![p].pc = "finished"]
  /\ UNCHANGED <<textDb, first>>

NextConc ==
  \E p \in Procs :
    Begin(p) \/ Route(p) \/ CreateTest(p) \/ CreateWrite(p) \/ Update(p)

SpecConc == InitConc /\ [][NextConc]_vars

\* ----------------------------------------------------------------- claims
\* The id the last response's Set-Cookie header carries, and the counter the
\* session store holds under it.
SetCookieId == last.headers[2][2]

StoredCounter == sessDb[SetCookieId].amount_of_viewed_pages

RateLimitError == "Too many articles reviewed."

Done(path) == last.state = "done" /\ last.path = path

\* C1: in every session the stored counter equals the number of documents
\* shown to the session and is at most 4; a /text request for an existing
\* title made at counter 0..3 shows the document's content, and a /text
\* request made at counter 4 gets the rate-limit error, no document, and
\* leaves the counter at 4.
C1_ViewLimit ==
  /\ \A sid \in DOMAIN sessDb :
       /\ sessDb[sid].amount_of_viewed_pages = served[sid]
       /\ sessDb[sid].amount_of_viewed_pages <= 4
  /\ Done("/text") =>
       /\ (last.n \in 0..3 /\ ShelfHas(textDb, last.title)) =>
            /\ last.body.title = last.title.s
            /\ last.body.content = textDb[last.title.s].s
       /\ last.n = 4 =>
            /\ last.body.error = RateLimitError
            /\ last.body.title = ""
            /\ StoredCounter = 4

\* A fifth view of an existing document was asked and refused.
C1_Witness ==
  /\ Done("/text")
  /\ last.n = 4
  /\ ShelfHas(textDb, last.title)
  /\ served[SetCookieId] = 4

\* C2: index on a session of counter n: when n <= 3 and the title exists,
\* the counter becomes n+1 and the context's current document carries the
\* stored content; when n > 3, whatever the title, the context carries the
\* rate-limit error, current is None and the counter stays n.
C2_IndexGate ==
  Done("/text") =>
    /\ (last.n <= 3 /\ ShelfHas(textDb, last.title)) =>
         /\ StoredCounter = last.n + 1
         /\ last.context.current = TextModel(last.title, textDb[last.title.s])
    /\ last.n > 3 =>
         /\ last.context.error = PyStr(RateLimitError)
         /\ last.context.current = PyNone
         /\ StoredCounter = last.n

\* The fourth view: made at counter 3, it shows the document.
C2_Witness ==
  /\ Done("/text")
  /\ last.n = 3
  /\ last.context.current # PyNone
  /\ StoredCounter = 4

\* C3: a create of a title that is not in the store returns True and stores
\* the content under the title; a create of a title that is in the store
\* returns False and leaves under it the content of the first successful
\* create.
C3_CreateOnce ==
  [][last'.is_created # "not called" =>
       LET t == last'.title.s
       IN IF t \in DOMAIN textDb
          THEN /\ last'.is_created = "False"
               /\ t \in DOMAIN first
               /\ textDb'[t] = first[t]
          ELSE /\ last'.is_created = "True"
               /\ textDb'[t] = last'.context.content]_vars

\* A second create of a title, with another content, returned False.
C3_Witness ==
  /\ last.is_created = "False"
  /\ last.context.content # textDb[last.title.s]

\* C4: a request whose session_id cookie is absent (no Cookie header, or a
\* header without that cookie) or names an id that is not in the session
\* store completes; a session of a new id (not in the store before, not the
\* cookie's value) is in the store, its counter was 0 when the handler
\* started, and the Set-Cookie header carries its id.
C4_FreshVisitor ==
  [][(\/ last'.header = "missing"
      \/ last'.header = "parsed" /\ ~ShelfHas(sessDb, last'.cookie)) =>
       /\ last'.state = "done"
       /\ last'.headers[2][1] = "Set-Cookie"
       /\ last'.headers[2][2] \notin DOMAIN sessDb
       /\ PyStr(last'.headers[2][2]) # last'.cookie
       /\ last'.headers[2][2] \in DOMAIN sessDb'
       /\ last'.n = 0]_vars

\* C5: every title that was ever stored is in the document store, with the
\* content of the first successful add of it.
C5_StoreOnlyGrows ==
  \A t \in DOMAIN first : t \in DOMAIN textDb /\ textDb[t] = first[t]

\* Both titles are stored and an add of a stored title was just refused.
C5_Witness ==
  /\ DOMAIN textDb = Titles
  /\ Done("/text/add")
  /\ last.is_created = "False"

\* C6: the body of a failed add carries the error of the failure: "Need fill
\* the form fields." when title or content is missing, "Title already
\* exist." when the title is a duplicate.
C6_AddErrorShown ==
  Done("/text/add") =>
    /\ last.is_created = "not called" => last.body.error = "Need fill the form fields."
    /\ last.is_created = "False" => last.body.error = "Title already exist."

\* C7: add with a missing or empty title or content sets the error "Need
\* fill the form fields.", does not call create and leaves the store; add
\* with both and a title in the store sets "Title already exist." and leaves
\* the store; add with both and a new title adds exactly title -> content.
C7_AddFrame ==
  [][(last'.state = "done" /\ last'.path = "/text/add") =>
       LET title == last'.context.title
           content == last'.context.content
       IN IF ~Truthy(title) \/ ~Truthy(content)
          THEN /\ last'.context.error = PyStr("Need fill the form fields.")
               /\ last'.is_created = "not called"
               /\ textDb' = textDb
          ELSE IF ShelfHas(textDb, title)
          THEN /\ last'.context.error = PyStr("Title already exist.")
               /\ textDb' = textDb
          ELSE /\ DOMAIN textDb' = DOMAIN textDb \cup {title.s}
               /\ title.s \notin DOMAIN textDb
               /\ textDb'[title.s] = content
               /\ \A t \in DOMAIN textDb : textDb'[t] = textDb[t]]_vars

\* An add with a title and no content was refused while a document is stored.
C7_Witness ==
  /\ Done("/text/add")
  /\ Truthy(last.context.title)
  /\ ~Truthy(last.context.content)
  /\ last.context.error = PyStr("Need fill the form fields.")
  /\ textDb # EmptyDb

\* C8: a completed request of a path other than /, /text and /text/add has
\* code 404, body "Nooo 404!" and status line "404 Not Found"; one of /,
\* /text and /text/add has code 200 and status line "200 OK".
C8_Routing ==
  last.state = "done" =>
    IF last.path \in {"/", "/text", "/text/add"}
    THEN last.code = 200 /\ last.status = "200 OK"
    ELSE /\ last.code = 404
         /\ last.body = Literal("Nooo 404!")
         /\ last.status = "404 Not Found"

\* An unregistered path was answered, by a session that is rate-limited.
C8_Witness ==
  /\ last.state = "done"
  /\ last.path \notin {"/", "/text", "/text/add"}
  /\ last.status = "404 Not Found"
  /\ StoredCounter > 3

\* C9: from one request to the next no session leaves the session store and
\* no session's counter decreases.
C9_CounterMonotone ==
  [][\A sid \in DOMAIN sessDb :
       /\ sid \in DOMAIN sessDb'
       /\ sessDb'[sid].amount_of_viewed_pages
            >= sessDb[sid].amount_of_viewed_pages]_vars

\* Two sessions are stored, and the last request raised one's counter while
\* the other's is not 0.
C9_Witness ==
  /\ Cardinality(DOMAIN sessDb) = 2
  /\ last.state = "done"
  /\ StoredCounter = last.n + 1
  /\ \E sid \in DOMAIN sessDb \ {SetCookieId} :
       sessDb[sid].amount_of_viewed_pages > 0

\* C10: after a completed request the response has the Content-Type and
\* Set-Cookie headers, and the session store holds under the Set-Cookie id
\* the session as the handler left it: that id, and the counter the handler
\* started with, plus one when the response shows a document.
C10_SessionWrittenBack ==
  last.state = "done" =>
    /\ last.headers[1] = <<"Content-Type", "text/html">>
    /\ last.headers[2][1] = "Set-Cookie"
    /\ SetCookieId \in DOMAIN sessDb
    /\ sessDb[SetCookieId].session_id = SetCookieId
    /\ StoredCounter =
         last.n + (IF last.body.template = "index" /\ last.body.title # ""
                   THEN 1 ELSE 0)

\* A session made by this request was shown a document: the store holds it
\* with counter 1.
C10_Witness ==
  /\ Done("/text")
  /\ last.new
  /\ last.body.title # ""
  /\ StoredCounter = 1

\* C11: a request whose session_id cookie names a stored session gets that
\* session with its stored counter; the set of session ids is unchanged and
\* the Set-Cookie header carries the cookie's id.
C11_KnownSession ==
  [][(last'.state = "done" /\ ShelfHas(sessDb, last'.cookie)) =>
       /\ last'.n = sessDb[last'.cookie.s].amount_of_viewed_pages
       /\ ~last'.new
       /\ DOMAIN sessDb' = DOMAIN sessDb
       /\ last'.headers[2] = <<"Set-Cookie", last'.cookie.s>>]_vars

\* A request came back with the cookie of a session that had seen two
\* documents, while another session is stored.
C11_Witness ==
  /\ last.state = "done"
  /\ ~last.new
  /\ last.n = 2
  /\ last.cookie = PyStr(SetCookieId)
  /\ Cardinality(DOMAIN sessDb) = 2

\* C15: a completed request leaves the session's counter as the handler
\* found it unless it is a /text request at a counter within the gate for a
\* title that is in the store; such a request raises it by one.
C15_CounterFrame ==
  last.state = "done" =>
    IF last.path = "/text" /\ last.n <= 3 /\ ShelfHas(textDb, last.title)
    THEN StoredCounter = last.n + 1
    ELSE StoredCounter = last.n

\* A /text request for a title that is not stored, by a session that has
\* seen a document, while a document is stored.
C15_Witness ==
  /\ Done("/text")
  /\ Truthy(last.title)
  /\ ~ShelfHas(textDb, last.title)
  /\ textDb # EmptyDb
  /\ last.n = 1
  /\ StoredCounter = 1

\* C16: an index response carries the rate-limit error exactly when the
\* counter at the start of the call is above 3, and no other error; the
\* view that raises the counter from 3 to 4 carries the document and no
\* error.
C16_ErrorByCounterBefore ==
  Done("/text") =>
    /\ last.body.error = (IF last.n > 3 THEN RateLimitError ELSE "")
    /\ last.context.error = PyStr(last.body.error)
    /\ (last.n = 3 /\ StoredCounter = 4) =>
         /\ last.body.title = last.title.s
         /\ last.body.content = textDb[last.title.s].s

\* A request without a title by a session at counter 4: the error is there
\* though no document was asked.
C16_Witness ==
  /\ Done("/text")
  /\ last.n = 4
  /\ ~Truthy(last.title)
  /\ last.body.error = RateLimitError

\* C17: a /text response lists exactly the titles of the document store,
\* which include every title an add has stored.
C17_FullListing ==
  Done("/text") =>
    /\ last.body.titles = DOMAIN textDb
    /\ DOMAIN first \subseteq last.body.titles

\* A session above the gate is listed both titles.
C17_Witness ==
  /\ Done("/text")
  /\ last.n > 3
  /\ last.body.titles = Titles

\* C18: a completed request changes the stored record of no session other
\* than the one its Set-Cookie header names.
C18_Isolation ==
  [][last'.state = "done" =>
       \A sid \in DOMAIN sessDb \ {last'.headers[2][2]} :
         sid \in DOMAIN sessDb' /\ sessDb'[sid] = sessDb[sid]]_vars

\* Two sessions with different counters, the last request having raised one.
C18_Witness ==
  /\ last.state = "done"
  /\ StoredCounter = last.n + 1
  /\ \E sid \in DOMAIN sessDb \ {SetCookieId} :
       /\ sessDb[sid].amount_of_viewed_pages > 0
       /\ sessDb[sid].amount_of_viewed_pages # StoredCounter

\* C19: every stored document has a non-empty title and a non-empty
\* content, and get_by_title returns a document for exactly the titles of
\* the store: no title is both a duplicate for create and not found.
C19_NoConflation ==
  /\ \A t \in DOMAIN textDb : t # "" /\ Truthy(textDb[t])
  /\ \A t \in Titles \cup {""} :
       (get_by_title(textDb, PyStr(t)) # PyNone) <=> (t \in DOMAIN textDb)
  /\ \A t \in Titles :
       ~(~create(textDb, PyStr(t), PyStr("x")).ret
         /\ get_by_title(textDb, PyStr(t)) = PyNone)

\* Both titles are stored, and adds without a title or a content were
\* refused on the way.
C19_Witness ==
  /\ DOMAIN textDb = Titles
  /\ Done("/text/add")
  /\ last.is_created = "not called"

\* C12: get_by_title of a title whose create with a non-empty content
\* returned True returns the document of that title with that content, and
\* get_by_title of a title that was not created returns None.
C12_GetByTitle ==
  last.op = "get_by_title" =>
    /\ (last.title.s \in DOMAIN first /\ first[last.title.s].s # "") =>
         last.ret = TextModel(last.title, first[last.title.s])
    /\ last.title.s \notin DOMAIN first => last.ret = PyNone

\* Both cases have happened: a title that is stored with a content was
\* looked up while the other title has never been created or was deleted.
C12_Witness ==
  /\ last.op = "get_by_title"
  /\ last.ret = TextModel(PyStr("A"), PyStr("y"))
  /\ DOMAIN textDb = {"A"}

\* C13: the write of a create whose test found the title absent stores its
\* content and the create returns True, also when another create has stored
\* the title since the test.
C13_LaterWriteWins ==
  [][\A p \in Procs :
       (procs[p].pc = "write" /\ procs'[p].pc = "update") =>
         /\ procs'[p].res.is_created = "True"
         /\ ShelfGet(textDb', procs'[p].res.title)
              = procs'[p].res.context.content]_vars

\* Two add requests of one title that was not in the store have both got
\* True from create, and the store holds the content of the later write,
\* not the content that was stored first.
C13_Witness ==
  /\ \A p \in Procs :
       /\ procs[p].pc \in {"update", "finished"}
       /\ procs[p].res.is_created = "True"
       /\ procs[p].res.title = PyStr("A")
  /\ procs[1].res.context.content # procs[2].res.context.content
  /\ first["A"] # textDb["A"]
  /\ textDb["A"] \in {procs[p].res.context.content : p \in Procs}

\* C14: with requests of one session interleaved, no step lowers a stored
\* counter and no session has been shown more than 4 documents.
C14_ViewLimitInterleaved ==
  [][/\ \A sid \in DOMAIN sessDb :
          sessDb'[sid].amount_of_viewed_pages
            >= sessDb[sid].amount_of_viewed_pages
     /\ \A sid \in DOMAIN served' : served'[sid] <= ViewGate + 1]_vars

\* C20: take_one_or_None returns None for a key that is not in the dict,
\* the first element of a list or tuple that is not empty, and any other
\* value as it is.
C20_TakeOne ==
  last.op = "take_one_or_None" =>
    IF last.key \notin DOMAIN last.dict_
    THEN last.ret = PyNone
    ELSE IF /\ last.dict_[last.key].type \in {"list", "tuple"}
            /\ last.dict_[last.key].items # <<>>
         THEN last.ret = Head(last.dict_[last.key].items)
         ELSE last.ret = last.dict_[last.key]

\* The first element of a tuple was taken from a dict that also holds an
\* empty list.
C20_Witness ==
  /\ last.op = "take_one_or_None"
  /\ last.ret = PyStr("a")
  /\ last.key = "foo"
  /\ last.dict_ = [k \in {"foo", "baz"} |->
                     IF k = "foo" THEN PyTuple(<<PyStr("a"), PyStr("b")>>)
                     ELSE PyList(<<>>)]

====
